---- MODULE Spec2Model ----
(***************************************************************************)
(* Pinecone (src/pinecone.cpp): the catalog loaded by loadJSONData, the    *)
(* directory scan of checkForContent, the statistics of printStats and the *)
(* dispatch and exit status of main.                                       *)
(*                                                                         *)
(* Strings whose characters the program inspects (identifiers, file names, *)
(* update names, hex digests) are tuples of one-character strings; strings *)
(* the program only copies or tests for emptiness (archive labels) are     *)
(* plain strings.                                                          *)
(***************************************************************************)
EXTENDS Integers, Sequences, FiniteSets, TLC

\* Largest number of entries a directory_iterator yields for one directory.
MaxEntries == 2
\* Largest number of command-line arguments after argv[0].
MaxArgs == 2
\* Largest number of members of the "Titles" object of the catalog file.
MaxTitles == 1

\* entry.path().filename().string().size() == 8
TitleIdLen == 8

-----------------------------------------------------------------------------
(* Characters and strings *)

UpperChars == <<"A","B","C","D","E","F","G","H","I","J","K","L","M",
                "N","O","P","Q","R","S","T","U","V","W","X","Y","Z">>
LowerChars == <<"a","b","c","d","e","f","g","h","i","j","k","l","m",
                "n","o","p","q","r","s","t","u","v","w","x","y","z">>

\* ::tolower on one character
tolower(c) ==
    IF \E i \in 1..26 : UpperChars[i] = c
    THEN LowerChars[CHOOSE i \in 1..26 : UpperChars[i] = c]
    ELSE c

\* std::transform(s.begin(), s.end(), s.begin(), ::tolower)
ToLower(s) == [i \in 1..Len(s) |-> tolower(s[i])]

\* s.substr(from): the characters of s from 1-based position from on
SubstrFrom(s, from) == [i \in 1..(Len(s) + 1 - from) |-> s[i + from - 1]]

\* name.find(c): the 1-based position of the first c, 0 for npos
FindChar(s, c) ==
    IF \E i \in 1..Len(s) : s[i] = c
    THEN CHOOSE i \in 1..Len(s) : s[i] = c /\ \A j \in 1..(i - 1) : s[j] # c
    ELSE 0

\* path.extension(): from the last dot of the file name to its end; empty
\* when there is no dot or the only dot is the first character
Extension(name) ==
    LET dots == {i \in 1..Len(name) : name[i] = "."}
    IN  IF dots = {} THEN <<>>
        ELSE LET lastDot == CHOOSE i \in dots : \A j \in dots : j <= i
             IN  IF lastDot = 1 THEN <<>> ELSE SubstrFrom(name, lastDot)

ExtXbe == <<".","x","b","e">>
ExtXbx == <<".","x","b","x">>

\* extension == ".xbe" || extension == ".xbx"
IsExecutableExtension(extension) == extension = ExtXbe \/ extension = ExtXbx

HexDigits == <<"0","1","2","3","4","5","6","7","8","9","a","b","c","d","e","f">>

\* ss << std::hex << std::setw(2) << std::setfill('0') << int(byte), per byte
RECURSIVE HexString(_)
HexString(bytes) ==
    IF bytes = <<>> THEN <<>>
    ELSE <<HexDigits[(Head(bytes) \div 16) + 1], HexDigits[(Head(bytes) % 16) + 1]>>
         \o HexString(Tail(bytes))

\* std::find(vec.begin(), vec.end(), val) != vec.end()
contains(vec, val) == \E i \in 1..Len(vec) : vec[i] = val

\* The sequences over S of length at most n
SeqsUpTo(S, n) == UNION {[1..k -> S] : k \in 0..n}

-----------------------------------------------------------------------------
(* The catalog file data/id_database.json, as rapidjson presents it *)

TLower   == <<"a","b","c","d","1","2","3","4">>
TUpper   == <<"A","B","C","D","1","2","3","4">>
TUnknown == <<"z","z","z","z","9","9","9","9">>
TShort   == <<"a","b","c">>

IdC1Lower == <<"c","1">>
IdC1Upper == <<"C","1">>
IdD2      == <<"d","2">>

NameColon     == <<"X",":"," ","U","2">>
NamePlain     == <<"U","A">>
NameTwoColons == <<"X",":","a",":","b">>

ShaDeLower == <<"d","e">>
ShaDeUpper == <<"D","E">>
ShaBeLower == <<"b","e">>
Sha0aLower == <<"0","a">>

Upd(n, h) == [Name |-> n, SHA1 |-> h]

\* "Content IDs" arrays
ContentIDLists == {<<IdC1Lower>>, <<IdC1Upper>>, <<IdC1Lower, IdD2>>}

\* "Archived" arrays: each element an object, given as its members in file
\* order, each member a <<name, value>> pair
ArchivedLists ==
    { <<>>,
      << << <<IdC1Lower, "L1">> >>, << <<IdC1Lower, "L2">> >> >>,
      << << <<IdD2, "L2">> >>, << <<IdC1Lower, "L1">> >> >>,
      << << <<IdC1Lower, "">> >>, << <<IdC1Lower, "L2">> >> >>,
      << << <<IdC1Upper, "L1">> >> >> }

\* "Title Updates Known" arrays
KnownLists ==
    { <<>>,
      <<Upd(NameColon, ShaDeLower), Upd(NamePlain, ShaDeLower)>>,
      <<Upd(NamePlain, ShaBeLower), Upd(NameTwoColons, ShaDeLower)>>,
      <<Upd(NameColon, ShaDeUpper)>> }

\* "Title Updates" arrays
UpdateLists == {<<>>, <<Upd(NamePlain, Sha0aLower)>>}

\* One member value of the "Titles" object. A member that is absent or not
\* an array leaves the vector empty, like an empty array. The content
\* identifiers and archive records vary with the updates fixed, and the
\* updates vary with the content identifiers and archive records fixed.
JsonTitles ==
    [TitleName : {"Game X"}, ContentIDs : ContentIDLists,
     TitleUpdates : {<<>>},
     TitleUpdatesKnown : {<<Upd(NameColon, ShaDeLower), Upd(NamePlain, ShaDeLower)>>},
     Archived : ArchivedLists]
    \cup
    [TitleName : {"Game X"}, ContentIDs : {<<IdC1Lower>>},
     TitleUpdates : UpdateLists, TitleUpdatesKnown : KnownLists,
     Archived : {<<>>}]

JsonMembers == [name : {TLower, TUpper}, value : JsonTitles]

\* What loadJSONData finds: a file it cannot open, a document that is not an
\* object, a "Titles" member that is not an object, or the members of "Titles"
JsonInputs ==
    [kind : {"unopenable", "notobject", "notitles"}, members : {<<>>}]
    \cup [kind : {"ok"}, members : SeqsUpTo(JsonMembers, MaxTitles)]

\* ArchivedContent of one "Archived" element: archivedContent[name] = value
\* for each member in turn, a later member replacing an earlier one
ArchivedMap(members) ==
    [k \in {members[i][1] : i \in 1..Len(members)} |->
        LET at == CHOOSE i \in 1..Len(members) :
                    /\ members[i][1] = k
                    /\ \A j \in (i + 1)..Len(members) : members[j][1] # k
        IN  members[at][2]]

\* TitleData built from one member value (lines 75-127)
TitleDataOf(title) ==
    [TitleName         |-> title.TitleName,
     ContentIDs        |-> title.ContentIDs,
     TitleUpdates      |-> title.TitleUpdates,
     TitleUpdatesKnown |-> title.TitleUpdatesKnown,
     Archived          |-> [i \in 1..Len(title.Archived) |->
                               ArchivedMap(title.Archived[i])]]

\* std::string titleID = itr->name.GetString(); std::transform(... ::tolower)
CatalogKey(name) == ToLower(name)

\* titles.Titles after the loop over the members: titles.Titles[titleID] = data
RECURSIVE LoadTitles(_, _)
LoadTitles(members, acc) ==
    IF members = <<>> THEN acc
    ELSE LET m   == Head(members)
             key == CatalogKey(m.name)
             new == [k \in (DOMAIN acc) \cup {key} |->
                        IF k = key THEN TitleDataOf(m.value) ELSE acc[k]]
         IN  LoadTitles(Tail(members), new)

EmptyTitles == [k \in {} |-> 0]

-----------------------------------------------------------------------------
(* What the directory iterators and the digest provider can deliver *)

FileXbeLower == <<"a",".","x","b","e">>
FileXbeUpper == <<"a",".","X","B","E">>
FileXbxLower == <<"a",".","x","b","x">>
FileTxt      == <<"a",".","t","x","t">>
FileNames    == {FileXbeLower, FileXbeUpper, FileXbxLower, FileTxt}

\* The bytes SHA1_Final leaves in hash for a file's contents
HashDe == <<222>>
HashBe == <<190>>
Hash0a == <<10>>
HashBytes == {HashDe, HashBe, Hash0a}

\* Entries of the scanned root and of a title's $c folder
RootEntries ==
    [name : {TLower, TUpper, TUnknown, TShort}, isDir : {TRUE},
     openable : {TRUE}, sha : {HashDe}]
    \cup [name : {TLower}, isDir : {FALSE}, openable : {TRUE}, sha : {HashDe}]

ContentEntries ==
    [name : {IdC1Lower, IdC1Upper, IdD2}, isDir : {TRUE},
     openable : {TRUE}, sha : {HashDe}]
    \cup [name : {IdC1Lower}, isDir : {FALSE}, openable : {TRUE}, sha : {HashDe}]

\* Entries of a content folder: regular files, readable or not, and a
\* subdirectory
ContentFileEntries ==
    [name : FileNames, isDir : {FALSE}, openable : BOOLEAN, sha : {HashDe}]
    \cup [name : {FileXbeLower}, isDir : {TRUE}, openable : {TRUE}, sha : {HashDe}]

\* Entries of a title's $u folder
UpdateEntries ==
    [name : FileNames, isDir : {FALSE}, openable : {TRUE}, sha : HashBytes]
    \cup [name : FileNames, isDir : {FALSE}, openable : {FALSE}, sha : {HashDe}]
    \cup [name : {FileXbeLower}, isDir : {TRUE}, openable : {TRUE}, sha : {HashDe}]

-----------------------------------------------------------------------------
(* getSHA1Hash and the decisions of checkForContent *)

\* getSHA1Hash: throws when the file cannot be opened, else the bytes of the
\* digest written as two lower-case hex digits each
getSHA1Hash(file) ==
    IF ~file.openable THEN [threw |-> TRUE, hash |-> <<>>]
    ELSE [threw |-> FALSE, hash |-> HexString(file.sha)]

\* entry.is_directory() && entry.path().filename().string().size() == 8
IsTitleFolder(entry) == entry.isDir /\ Len(entry.name) = TitleIdLen

\* titleID of a title folder: its name through ::tolower
FolderTitleID(name) == ToLower(name)

\* contentID of a content folder: its name through ::tolower
FolderContentID(name) == ToLower(name)

\* The loop over it->second.Archived: the value of contentID in the first map
\* that holds it, "" when no map does
RECURSIVE ArchivedName(_, _)
ArchivedName(archived, contentID) ==
    IF archived = <<>> THEN ""
    ELSE IF contentID \in DOMAIN Head(archived) THEN Head(archived)[contentID]
    ELSE ArchivedName(Tail(archived), contentID)

\* The outcome for one content folder of a recognized title
ClassifyContent(data, contentID) ==
    IF contains(data.ContentIDs, contentID)
    THEN LET archivedName == ArchivedName(data.Archived, contentID)
         IN  IF archivedName # ""
             THEN [kind |-> "ArchivedContent", label |-> archivedName]
             ELSE [kind |-> "UnarchivedContent", label |-> ""]
    ELSE [kind |-> "UnknownContent", label |-> ""]

\* The outcome for one regular file of an unarchived content folder
ClassifyContentFile(name) ==
    IF IsExecutableExtension(Extension(name)) THEN "RecognizedBinary"
    ELSE "UnrecognizedFile"

\* Whether a regular file of $u is hashed at all
IsUpdateCandidate(name) == IsExecutableExtension(Extension(name))

\* fileHash == knownUpdate.SHA1
HashMatches(fileHash, sha1) == fileHash = sha1

\* As MatchKnownUpdate with the break after the match left out: the last
\* matching entry is the one reported
MatchLastKnownUpdate(known, fileHash) ==
    IF \E i \in 1..Len(known) : HashMatches(fileHash, known[i].SHA1)
    THEN CHOOSE i \in 1..Len(known) :
            /\ HashMatches(fileHash, known[i].SHA1)
            /\ \A j \in (i + 1)..Len(known) : ~HashMatches(fileHash, known[j].SHA1)
    ELSE 0

\* The loop over it->second.TitleUpdatesKnown: the position of the first
\* entry whose SHA1 matches, 0 when hashMatchFound stays false
MatchKnownUpdate(known, fileHash) ==
    IF \E i \in 1..Len(known) : HashMatches(fileHash, known[i].SHA1)
    THEN CHOOSE i \in 1..Len(known) :
            /\ HashMatches(fileHash, known[i].SHA1)
            /\ \A j \in 1..(i - 1) : ~HashMatches(fileHash, known[j].SHA1)
    ELSE 0

\* As DisplayName with name.substr(splitPosition): the colon is kept
DisplayNameKeepColon(name) ==
    LET splitPosition == FindChar(name, ":")
    IN  IF splitPosition # 0 THEN SubstrFrom(name, splitPosition) ELSE name

\* name.find(':') and name.substr(splitPosition + 1)
DisplayName(name) ==
    LET splitPosition == FindChar(name, ":")
    IN  IF splitPosition # 0 THEN SubstrFrom(name, splitPosition + 1) ELSE name

\* The counts printTitleStats prints
TitleStats(data) ==
    <<Len(data.ContentIDs), Len(data.TitleUpdates),
      Len(data.TitleUpdatesKnown), Len(data.Archived)>>

-----------------------------------------------------------------------------
(* The command line *)

ArgTokens ==
    [opt : {"summarize", "fatxplorer", "help"}, val : {<<>>}]
    \cup [opt : {"titleid"}, val : {<<>>, TLower, TUpper, TUnknown}]

NoFlags == [help |-> FALSE, summarizeFlag |-> FALSE, titleIDFlag |-> <<>>,
            fatxplorer |-> FALSE]

\* The loop of main over argv[1..]: -help returns at once
RECURSIVE ParseFlags(_, _)
ParseFlags(argv, flags) ==
    IF argv = <<>> THEN flags
    ELSE LET a == Head(argv)
         IN  IF a.opt = "summarize"
             THEN ParseFlags(Tail(argv), [flags EXCEPT !.summarizeFlag = TRUE])
             ELSE IF a.opt = "titleid"
             THEN ParseFlags(Tail(argv), [flags EXCEPT !.titleIDFlag = a.val])
             ELSE IF a.opt = "fatxplorer"
             THEN ParseFlags(Tail(argv), [flags EXCEPT !.fatxplorer = TRUE])
             ELSE [flags EXCEPT !.help = TRUE]

\* titles.Titles.find(titleID) of printStats: the flag's text as given
StatsKey(titleID) == titleID

-----------------------------------------------------------------------------
(* State *)

VARIABLES
    pc,             \* where main is
    summarizeFlag,  \* main's summarizeFlag
    titleIDFlag,    \* main's titleIDFlag
    fatxplorer,     \* main's fatxplorer
    titles,         \* titles.Titles: lower-cased title id -> TitleData
    exitCode,       \* the value main returned, once pc = "exit"
    loadFailed,     \* loadJSONData threw
    missingRoot,    \* the root directory of the selected scan was absent
    rootLeft,       \* entries the iterator of the root has still to yield
    cLeft,          \* entries the iterator of $c has still to yield
    fLeft,          \* entries the iterator of a content folder or $u has still to yield
    entry,          \* name of the title folder being handled, <<>> if none
    subContent,     \* name of the content folder being listed, <<>> if none
    last,           \* the node handled by the latest step and what was reported for it
    failed,         \* getSHA1Hash has thrown during this scan
    stats           \* what printStats printed

vars == <<pc, summarizeFlag, titleIDFlag, fatxplorer, titles, exitCode,
          loadFailed, missingRoot, rootLeft, cLeft, fLeft, entry, subContent,
          last, failed, stats>>

flagVars == <<summarizeFlag, titleIDFlag, fatxplorer>>
walkVars == <<rootLeft, cLeft, fLeft, entry, subContent, last, failed>>

NoNode == [name |-> <<>>, isDir |-> FALSE, openable |-> TRUE, sha |-> HashDe]

\* One step of the scan: the node taken from an iterator (area says which),
\* the title folder it lies under, the outcome reported for it ("Skipped"
\* when nothing is printed), the strings printed with it and whether
\* getSHA1Hash was called
Step(area, title, node, kind, label, display, digest, digested) ==
    [area |-> area, title |-> title, node |-> node, kind |-> kind,
     label |-> label, display |-> display, digest |-> digest,
     digested |-> digested]

NoStep == Step("none", <<>>, NoNode, "Skipped", "", <<>>, <<>>, FALSE)

Init ==
    /\ pc = "args"
    /\ summarizeFlag = FALSE
    /\ titleIDFlag = <<>>
    /\ fatxplorer = FALSE
    /\ titles = EmptyTitles
    /\ exitCode = 0
    /\ loadFailed = FALSE
    /\ missingRoot = FALSE
    /\ rootLeft = 0
    /\ cLeft = 0
    /\ fLeft = 0
    /\ entry = <<>>
    /\ subContent = <<>>
    /\ last = NoStep
    /\ failed = FALSE
    /\ stats = [kind |-> "none", rows |-> {}]

\* return <code> from main
Exit(code) == pc' = "exit" /\ exitCode' = code

-----------------------------------------------------------------------------
(* main *)

\* Lines 358-384
ParseArgs ==
    /\ pc = "args"
    /\ \E argv \in SeqsUpTo(ArgTokens, MaxArgs) :
        LET f == ParseFlags(argv, NoFlags)
        IN  /\ summarizeFlag' = f.summarizeFlag
            /\ titleIDFlag' = f.titleIDFlag
            /\ fatxplorer' = f.fatxplorer
            /\ IF f.help THEN Exit(0)
               ELSE pc' = "load" /\ UNCHANGED exitCode
    /\ UNCHANGED <<titles, loadFailed, missingRoot, walkVars, stats>>

\* Lines 386-395 with loadJSONData
LoadJSONData ==
    /\ pc = "load"
    /\ \E json \in JsonInputs :
        IF json.kind # "ok"
        THEN /\ loadFailed' = TRUE
             /\ Exit(1)
             /\ UNCHANGED titles
        ELSE /\ titles' = LoadTitles(json.members, EmptyTitles)
             /\ pc' = "dispatch"
             /\ UNCHANGED <<loadFailed, exitCode>>
    /\ UNCHANGED <<flagVars, missingRoot, walkVars, stats>>

\* Lines 401-405 with printStats(titleIDFlag, false, titles)
StatsSingle ==
    /\ pc = "dispatch"
    /\ titleIDFlag # <<>>
    /\ LET key == StatsKey(titleIDFlag)
       IN  stats' = IF key \in DOMAIN titles
                    THEN [kind |-> "single",
                          rows |-> {[id |-> titleIDFlag,
                                     counts |-> TitleStats(titles[key])]}]
                    ELSE [kind |-> "nodata", rows |-> {}]
    /\ Exit(0)
    /\ UNCHANGED <<flagVars, titles, loadFailed, missingRoot, walkVars>>

\* Lines 406-410 with printStats("", true, titles)
StatsBatch ==
    /\ pc = "dispatch"
    /\ titleIDFlag = <<>>
    /\ summarizeFlag
    /\ stats' = [kind |-> "batch",
                 rows |-> {[id |-> id, counts |-> TitleStats(titles[id])] :
                             id \in DOMAIN titles}]
    /\ Exit(0)
    /\ UNCHANGED <<flagVars, titles, loadFailed, missingRoot, walkVars>>

\* Lines 411-427: the build is for Windows or not; on Windows X:/ exists or not
FatxplorerMode ==
    /\ pc = "dispatch"
    /\ titleIDFlag = <<>>
    /\ ~summarizeFlag
    /\ fatxplorer
    /\ \E windows \in BOOLEAN, xDrive \in BOOLEAN :
        IF ~windows
        THEN Exit(0) /\ UNCHANGED missingRoot
        ELSE IF xDrive
        THEN pc' = "scan" /\ UNCHANGED <<exitCode, missingRoot>>
        ELSE Exit(0) /\ missingRoot' = TRUE
    /\ UNCHANGED <<flagVars, titles, loadFailed, walkVars, stats>>

\* Lines 428-440
DefaultMode ==
    /\ pc = "dispatch"
    /\ titleIDFlag = <<>>
    /\ ~summarizeFlag
    /\ ~fatxplorer
    /\ \E exists \in BOOLEAN :
        IF ~exists
        THEN Exit(1) /\ missingRoot' = TRUE
        ELSE pc' = "scan" /\ UNCHANGED <<exitCode, missingRoot>>
    /\ UNCHANGED <<flagVars, titles, loadFailed, walkVars, stats>>

-----------------------------------------------------------------------------
(* checkForContent *)

\* Lines 165-172: the root is gone, or its iterator is opened. main saw
\* dump/TDATA exist before the call; X:/TDATA is first looked at here.
CheckDirectory ==
    /\ pc = "scan"
    /\ \E exists \in (IF fatxplorer THEN BOOLEAN ELSE {TRUE}) :
        IF ~exists
        THEN /\ missingRoot' = TRUE
             /\ Exit(0)
             /\ UNCHANGED rootLeft
        ELSE /\ \E n \in 0..MaxEntries : rootLeft' = n
             /\ pc' = "titles"
             /\ UNCHANGED <<missingRoot, exitCode>>
    /\ UNCHANGED <<flagVars, titles, loadFailed, cLeft, fLeft, entry,
                   subContent, last, failed, stats>>

\* As AfterUnknownTitle with the else of line 311 falling into the walk of
\* the folder
DescendUnknownTitle(e) == pc' = "carea" /\ entry' = e.name

\* Lines 311-318: a folder that is not in the catalog is reported and the
\* loop over the root goes on
AfterUnknownTitle(e) == UNCHANGED <<pc, entry>>

\* Lines 172-182 and 311-318: one entry of the root
TitleEntry ==
    /\ pc = "titles"
    /\ rootLeft > 0
    /\ rootLeft' = rootLeft - 1
    /\ \E e \in RootEntries :
        IF ~IsTitleFolder(e)
        THEN /\ last' = Step("root", <<>>, e, "Skipped", "", <<>>, <<>>, FALSE)
             /\ UNCHANGED <<pc, entry>>
        ELSE IF FolderTitleID(e.name) \in DOMAIN titles
        THEN /\ last' = Step("root", <<>>, e, "FoundTitle", "", <<>>, <<>>, FALSE)
             /\ entry' = e.name
             /\ pc' = "carea"
        ELSE /\ last' = Step("root", <<>>, e, "UnknownTitle", "", <<>>, <<>>, FALSE)
             /\ AfterUnknownTitle(e)
    /\ UNCHANGED <<flagVars, titles, exitCode, loadFailed, missingRoot, cLeft,
                   fLeft, subContent, failed, stats>>

\* The root's iterator is exhausted: checkForContent returns, main returns 0
TitlesEnd ==
    /\ pc = "titles"
    /\ rootLeft = 0
    /\ Exit(0)
    /\ UNCHANGED <<flagVars, titles, loadFailed, missingRoot, walkVars, stats>>

\* Lines 184-188 and 246-249: $c is a directory, or "No DLC Found"
ContentArea ==
    /\ pc = "carea"
    /\ \E exists \in BOOLEAN :
        IF exists
        THEN /\ \E n \in 0..MaxEntries : cLeft' = n
             /\ pc' = "cfolders"
             /\ UNCHANGED last
        ELSE /\ last' = Step("title", entry, [NoNode EXCEPT !.name = entry, !.isDir = TRUE],
                             "NoContentArea", "", <<>>, <<>>, FALSE)
             /\ pc' = "uarea"
             /\ UNCHANGED cLeft
    /\ UNCHANGED <<flagVars, titles, exitCode, loadFailed, missingRoot, rootLeft,
                   fLeft, entry, subContent, failed, stats>>

\* Lines 188-243: one entry of $c
ContentEntry ==
    /\ pc = "cfolders"
    /\ cLeft > 0
    /\ cLeft' = cLeft - 1
    /\ \E e \in ContentEntries :
        IF ~e.isDir
        THEN /\ last' = Step("content", entry, e, "Skipped", "", <<>>, <<>>, FALSE)
             /\ UNCHANGED <<pc, fLeft, subContent>>
        ELSE LET contentID == FolderContentID(e.name)
                 r == ClassifyContent(titles[FolderTitleID(entry)], contentID)
             IN  /\ last' = Step("content", entry, e, r.kind, r.label, <<>>, <<>>, FALSE)
                 /\ IF r.kind = "UnarchivedContent"
                    THEN /\ \E n \in 0..MaxEntries : fLeft' = n
                         /\ subContent' = e.name
                         /\ pc' = "cfiles"
                    ELSE UNCHANGED <<pc, fLeft, subContent>>
    /\ UNCHANGED <<flagVars, titles, exitCode, loadFailed, missingRoot, rootLeft,
                   entry, failed, stats>>

\* The iterator of $c is exhausted: on to $u
ContentEnd ==
    /\ pc = "cfolders"
    /\ cLeft = 0
    /\ pc' = "uarea"
    /\ UNCHANGED <<flagVars, titles, exitCode, loadFailed, missingRoot, walkVars,
                   stats>>

\* Lines 222-236: one entry of an unarchived content folder
ContentFile ==
    /\ pc = "cfiles"
    /\ fLeft > 0
    /\ fLeft' = fLeft - 1
    /\ \E f \in ContentFileEntries :
        IF f.isDir
        THEN last' = Step("cfile", entry, f, "Skipped", "", <<>>, <<>>, FALSE)
        ELSE last' = Step("cfile", entry, f, ClassifyContentFile(f.name), "", <<>>, <<>>,
                          FALSE)
    /\ UNCHANGED <<flagVars, titles, exitCode, loadFailed, missingRoot, pc,
                   rootLeft, cLeft, entry, subContent, failed, stats>>

\* The iterator of the content folder is exhausted: back to the loop over $c
ContentFilesEnd ==
    /\ pc = "cfiles"
    /\ fLeft = 0
    /\ pc' = "cfolders"
    /\ subContent' = <<>>
    /\ UNCHANGED <<flagVars, titles, exitCode, loadFailed, missingRoot, rootLeft,
                   cLeft, fLeft, entry, last, failed, stats>>

\* Lines 251-255 and 305-309: $u is a directory, or "No Title Updates Found"
UpdatesArea ==
    /\ pc = "uarea"
    /\ \E exists \in BOOLEAN :
        IF exists
        THEN /\ \E n \in 0..MaxEntries : fLeft' = n
             /\ pc' = "ufiles"
             /\ UNCHANGED <<last, entry>>
        ELSE /\ last' = Step("title", entry, [NoNode EXCEPT !.name = entry, !.isDir = TRUE],
                             "NoUpdatesArea", "", <<>>, <<>>, FALSE)
             /\ pc' = "titles"
             /\ entry' = <<>>
             /\ UNCHANGED fLeft
    /\ UNCHANGED <<flagVars, titles, exitCode, loadFailed, missingRoot, rootLeft,
                   cLeft, subContent, failed, stats>>

\* The report for a file of $u that getSHA1Hash could read (lines 274-300)
ClassifyUpdate(data, title, f, fileHash) ==
    LET m == MatchKnownUpdate(data.TitleUpdatesKnown, fileHash)
    IN  IF m # 0
        THEN Step("update", title, f, "KnownUpdate", "",
                  DisplayName(data.TitleUpdatesKnown[m].Name), fileHash, TRUE)
        ELSE Step("update", title, f, "UnknownUpdate", "", <<>>, fileHash, TRUE)

\* As CatchDigestError without the try block: the exception leaves main
RethrowDigestError == Exit(1)

\* Lines 268-272: the exception of getSHA1Hash is caught and reported, and the
\* loop over $u goes on
CatchDigestError == UNCHANGED <<pc, exitCode>>

\* Lines 255-303: one entry of $u
UpdateFile ==
    /\ pc = "ufiles"
    /\ fLeft > 0
    /\ fLeft' = fLeft - 1
    /\ \E f \in UpdateEntries :
        IF f.isDir \/ ~IsUpdateCandidate(f.name)
        THEN /\ last' = Step("update", entry, f, "Skipped", "", <<>>, <<>>, FALSE)
             /\ UNCHANGED <<failed, pc, exitCode>>
        ELSE LET h == getSHA1Hash(f)
             IN  IF h.threw
                 THEN /\ last' = Step("update", entry, f, "DigestError", "", <<>>,
                                      <<>>, TRUE)
                      /\ failed' = TRUE
                      /\ CatchDigestError
                 ELSE /\ last' = ClassifyUpdate(titles[FolderTitleID(entry)], entry,
                                                f, h.hash)
                      /\ UNCHANGED <<failed, pc, exitCode>>
    /\ UNCHANGED <<flagVars, titles, loadFailed, missingRoot, rootLeft, cLeft,
                   entry, subContent, stats>>

\* The iterator of $u is exhausted: back to the loop over the root
UpdatesEnd ==
    /\ pc = "ufiles"
    /\ fLeft = 0
    /\ pc' = "titles"
    /\ entry' = <<>>
    /\ UNCHANGED <<flagVars, titles, exitCode, loadFailed, missingRoot, rootLeft,
                   cLeft, fLeft, subContent, last, failed, stats>>

Next ==
    \/ ParseArgs
    \/ LoadJSONData
    \/ StatsSingle
    \/ StatsBatch
    \/ FatxplorerMode
    \/ DefaultMode
    \/ CheckDirectory
    \/ TitleEntry
    \/ TitlesEnd
    \/ ContentArea
    \/ ContentEntry
    \/ ContentEnd
    \/ ContentFile
    \/ ContentFilesEnd
    \/ UpdatesArea
    \/ UpdateFile
    \/ UpdatesEnd

Spec == Init /\ [][Next]_vars

-----------------------------------------------------------------------------
(* Properties *)

Range(seq) == {seq[i] : i \in 1..Len(seq)}

\* The TitleData of the title folder a step lies under
DataOf(st) == titles[ToLower(st.title)]

\* Executable suffixes as the program tests them, and ignoring letter case
ExactSuffix(name) == Extension(name) \in {ExtXbe, ExtXbx}
FoldedSuffix(name) == ToLower(Extension(name)) \in {ExtXbe, ExtXbx}

\* What a node is reported as, from the catalog and the node alone
ExpectedKind(st) ==
    LET n == st.node
    IN  CASE st.area = "root" ->
               IF ~n.isDir \/ Len(n.name) # TitleIdLen THEN "Skipped"
               ELSE IF ToLower(n.name) \in DOMAIN titles THEN "FoundTitle"
               ELSE "UnknownTitle"
          [] st.area = "content" ->
               LET id == ToLower(n.name)
                   holders == {i \in 1..Len(DataOf(st).Archived) :
                                 id \in DOMAIN DataOf(st).Archived[i]}
               IN  IF ~n.isDir THEN "Skipped"
                   ELSE IF id \notin Range(DataOf(st).ContentIDs) THEN "UnknownContent"
                   ELSE IF \E i \in holders :
                             /\ \A j \in holders : i <= j
                             /\ DataOf(st).Archived[i][id] # ""
                   THEN "ArchivedContent"
                   ELSE "UnarchivedContent"
          [] st.area = "cfile" ->
               IF n.isDir THEN "Skipped"
               ELSE IF ExactSuffix(n.name) THEN "RecognizedBinary"
               ELSE "UnrecognizedFile"
          [] st.area = "update" ->
               IF n.isDir \/ ~ExactSuffix(n.name) THEN "Skipped"
               ELSE IF ~n.openable THEN "DigestError"
               ELSE IF \E u \in Range(DataOf(st).TitleUpdatesKnown) :
                           u.SHA1 = HexString(n.sha)
               THEN "KnownUpdate"
               ELSE "UnknownUpdate"
          [] OTHER -> st.kind

\* C1: a file of $u whose digest cannot be computed is reported as
\* DigestError and the loop over $u goes on; whether or not a digest has
\* failed earlier, every node is reported as the catalog and the node alone
\* determine; and a scan in which a digest failed ends with every iterator
\* exhausted and exit status 0.
C1_DigestErrorIsLocal ==
    /\ last.kind = "DigestError" =>
          /\ pc \in {"ufiles", "titles", "exit"}
          /\ pc # "ufiles" => fLeft = 0
          /\ last.area = "update"
          /\ ~last.node.openable
    /\ (last.area = "update" /\ ~last.node.isDir /\ ExactSuffix(last.node.name)) =>
          (last.kind = "DigestError" <=> ~last.node.openable)
    /\ last.kind = ExpectedKind(last)
    /\ (failed /\ pc = "exit") =>
          (exitCode = 0 /\ rootLeft = 0 /\ cLeft = 0 /\ fLeft = 0)

\* A digest failed earlier in the scan and a later file of $u has been
\* matched against the catalog
C1_Witness ==
    /\ failed
    /\ pc = "ufiles"
    /\ last.area = "update"
    /\ last.kind = "KnownUpdate"

\* C2: a title folder whose identifier is not in the catalog is reported as
\* UnknownTitle, no digest is computed for it, the scan stays in the loop over
\* the root, and every node reported below a title folder lies under a folder
\* whose identifier is in the catalog.
C2_UnknownTitleIsTerminal ==
    /\ (last.area = "root" /\ IsTitleFolder(last.node)
          /\ ToLower(last.node.name) \notin DOMAIN titles) =>
          last.kind = "UnknownTitle"
    /\ last.kind = "UnknownTitle" =>
          /\ last.area = "root"
          /\ ToLower(last.node.name) \notin DOMAIN titles
          /\ ~last.digested
          /\ pc \in {"titles", "exit"}
          /\ entry = <<>>
    /\ last.area \in {"title", "content", "cfile", "update"} =>
          ToLower(last.title) \in DOMAIN titles
    /\ pc \in {"carea", "cfolders", "cfiles", "uarea", "ufiles"} =>
          ToLower(entry) \in DOMAIN titles

\* An unknown title folder has been reported and the root has more entries
C2_Witness ==
    /\ last.kind = "UnknownTitle"
    /\ pc = "titles"
    /\ rootLeft > 0
    /\ titles # EmptyTitles

\* C3: title lookup ignores letter case in the scan and in the statistics for
\* one title: "no data found" and UnknownTitle are reported only for an
\* identifier that matches no catalog key up to letter case.
C3_LookupIgnoresCase ==
    /\ stats.kind = "nodata" => ToLower(titleIDFlag) \notin DOMAIN titles
    /\ last.kind = "UnknownTitle" => ToLower(last.node.name) \notin DOMAIN titles

\* C4: under a recognized title a content folder is UnknownContent exactly
\* when its identifier equals none of the title's contentIds up to letter case.
C4_UnknownContentIgnoresCase ==
    (last.area = "content" /\ last.node.isDir) =>
        (last.kind = "UnknownContent" <=>
            ToLower(last.node.name) \notin
                {ToLower(c) : c \in Range(DataOf(last).ContentIDs)})

\* The entries of a title's archived sequence that hold an identifier
Holders(data, id) == {i \in 1..Len(data.Archived) : id \in DOMAIN data.Archived[i]}

\* C5: a content folder whose identifier is in contentIds and is a key of some
\* archived entry is ArchivedContent with the label of the first such entry,
\* whatever that label is.
C5_ArchivedFirstLabel ==
    LET id == ToLower(last.node.name)
    IN  (/\ last.area = "content"
         /\ last.node.isDir
         /\ id \in Range(DataOf(last).ContentIDs)
         /\ Holders(DataOf(last), id) # {}) =>
            /\ last.kind = "ArchivedContent"
            /\ \E i \in Holders(DataOf(last), id) :
                  /\ \A j \in Holders(DataOf(last), id) : i <= j
                  /\ last.label = DataOf(last).Archived[i][id]

\* A name without everything up to and including its first colon
AfterFirstColon(name) ==
    IF ":" \notin Range(name) THEN name
    ELSE LET p == CHOOSE i \in 1..Len(name) :
                    name[i] = ":" /\ \A j \in 1..Len(name) : name[j] = ":" => i <= j
         IN  SubSeq(name, p + 1, Len(name))

\* The report for a hashed file of $u agrees with the entries at the
\* positions hits of knownTitleUpdates: the first of them is named if there
\* is one, else the file is an UnknownUpdate; the computed digest is carried
UpdateReportFollows(hits) ==
    LET known == DataOf(last).TitleUpdatesKnown
    IN  /\ last.digest = HexString(last.node.sha)
        /\ hits # {} =>
              /\ last.kind = "KnownUpdate"
              /\ \E i \in hits :
                    /\ \A j \in hits : i <= j
                    /\ last.display = AfterFirstColon(known[i].Name)
        /\ hits = {} => last.kind = "UnknownUpdate"

\* A file of $u whose digest was computed
Hashed == /\ last.area = "update"
          /\ last.digested
          /\ last.kind # "DigestError"

\* C6 as stated: the digest is matched against knownTitleUpdates ignoring
\* letter case; the first matching entry is named, and UnknownUpdate with the
\* computed digest is reported only when no entry matches.
C6_HashMatchIgnoresCase ==
    Hashed =>
        UpdateReportFollows(
            {i \in 1..Len(DataOf(last).TitleUpdatesKnown) :
                ToLower(DataOf(last).TitleUpdatesKnown[i].SHA1) = ToLower(last.digest)})

\* C6 amended: the digest, lower-case hex, is matched against knownTitleUpdates
\* by exact string equality; the first equal entry is named, and UnknownUpdate
\* with the computed digest is reported exactly when no entry is equal;
\* titleUpdates plays no part.
C6_HashMatchExact ==
    Hashed =>
        UpdateReportFollows(
            {i \in 1..Len(DataOf(last).TitleUpdatesKnown) :
                DataOf(last).TitleUpdatesKnown[i].SHA1 = last.digest})

\* A file was matched where two entries of knownTitleUpdates have its digest
C6_Witness ==
    /\ Hashed
    /\ last.kind = "KnownUpdate"
    /\ Cardinality({i \in 1..Len(DataOf(last).TitleUpdatesKnown) :
            DataOf(last).TitleUpdatesKnown[i].SHA1 = last.digest}) > 1

\* C7: main returns non-zero exactly when the catalog failed to load or the
\* root directory of the selected scan was absent.
C7_ExitStatus ==
    pc = "exit" => (exitCode # 0 <=> (loadFailed \/ missingRoot))

\* C8: files of a content folder are reported only under an
\* UnarchivedContent folder, each as RecognizedBinary exactly when its
\* extension is .xbe or .xbx ignoring letter case and as UnrecognizedFile
\* otherwise, and no digest is computed for them.
C8_ContentFilesIgnoreCase ==
    /\ last.kind \in {"UnknownContent", "ArchivedContent"} => pc # "cfiles"
    /\ last.area = "cfile" =>
          /\ ~last.digested
          /\ ~last.node.isDir =>
                /\ last.kind \in {"RecognizedBinary", "UnrecognizedFile"}
                /\ last.kind = "RecognizedBinary" <=> FoldedSuffix(last.node.name)

\* C9: a file of $u is reported (KnownUpdate, UnknownUpdate or DigestError)
\* exactly when its extension is .xbe or .xbx ignoring letter case; any other
\* file is skipped with no report and no digest.
C9_UpdateFilesIgnoreCase ==
    (last.area = "update" /\ ~last.node.isDir) =>
        IF FoldedSuffix(last.node.name)
        THEN last.kind \in {"KnownUpdate", "UnknownUpdate", "DigestError"}
        ELSE last.kind = "Skipped" /\ ~last.digested

\* The name of the entry of knownTitleUpdates a KnownUpdate report matched
MatchedName ==
    LET known == DataOf(last).TitleUpdatesKnown
        m == CHOOSE i \in 1..Len(known) :
                /\ known[i].SHA1 = last.digest
                /\ \A j \in 1..Len(known) : known[j].SHA1 = last.digest => i <= j
    IN  known[m].Name

\* C10: the display name of a KnownUpdate is the matched name without
\* everything up to and including its first colon: a name without a colon
\* is unchanged, later colons and the characters after the first colon are
\* kept, and "X: U2" gives " U2".
C10_DisplayNameStripsFirstColon ==
    last.kind = "KnownUpdate" =>
        /\ ":" \notin Range(MatchedName) => last.display = MatchedName
        /\ ":" \in Range(MatchedName) =>
              \E p \in 1..Len(MatchedName) :
                  /\ MatchedName[p] = ":"
                  /\ \A q \in 1..(p - 1) : MatchedName[q] # ":"
                  /\ MatchedName = SubSeq(MatchedName, 1, p) \o last.display
        /\ MatchedName = NameColon => last.display = <<" ", "U", "2">>

\* A name with two colons was matched and the second colon is displayed
C10_Witness ==
    /\ last.kind = "KnownUpdate"
    /\ MatchedName = NameTwoColons
    /\ last.display = <<"a", ":", "b">>

====
